---- MODULE Spec2Model ----
(***************************************************************************)
(* Memory Scramble board: the two Board implementations of the repository. *)
(*                                                                         *)
(*   variant "flip"     : src/src/board.ts      (Board.flip, async-mutex,  *)
(*                        changeListeners, boardVersion)                   *)
(*   variant "flipCard" : src/unnamed/part_001  (Board.flipCard,           *)
(*                        controlledBy, waitingPlayers)                    *)
(*                                                                         *)
(* JavaScript runs one job at a time: a handler runs without interruption  *)
(* up to its next await.  Every action below is one such run.              *)
(***************************************************************************)
EXTENDS Integers, Sequences, FiniteSets, TLC

VARIABLES
    variant,          \* which Board implementation this behaviour runs
    cards,            \* position -> card value, or Null for an empty space
    state,            \* board.ts: position -> "up" | "down" (CardSpace.state)
    playerState,      \* board.ts: playerId -> controlled set (created lazily)
    boardVersion,     \* board.ts: change counter
    changeListeners,  \* board.ts: resolvers of parked waitForChange() calls
    mutex,            \* board.ts: holder of the async-mutex, or Free
    faceUp,           \* part_001: position -> BOOLEAN
    controlledBy,     \* part_001: position -> playerId or Null
    playerStates,     \* part_001: playerId -> PlayerState (created lazily)
    waitingPlayers,   \* part_001: position -> queue of parked players
    watchers,         \* part_001: resolvers of parked waitForChange() calls
    watchPc,          \* watcher -> where its watch() / waitForChange()
                      \*   call stands
    initialVersion,   \* board.ts: watcher -> boardVersion read by its
                      \*   watch() call
    mapPc,            \* where the map() / mapCards() call stands
    uniqueCards,      \* map: the distinct card values collected, in order
    cardMapping,      \* map: the values f returned so far (cardMapping,
                      \*   transformCache), in the order of uniqueCards
    mapResult,        \* outcome of the latest map call
    maps,             \* number of map calls made
    mapStart,         \* history: the cards when the map call was made
    otherMap,         \* part_001: a second mapCards call: where it stands,
                      \*   its transformer f, its uniqueCards, its
                      \*   transformCache and its outcome
    view,             \* history: the latest look and what it returned, if
                      \*   no other step was taken since; again: the look
                      \*   before it was by the same player
    pc,               \* playerId -> where that player's flip call stands
    target,           \* playerId -> position argument of the player's call
    result,           \* playerId -> outcome of the player's latest call
    lastMove,         \* history: board.ts player -> cells of the finished,
                      \*   not yet cleaned up, non-matching move
    last              \* history: digest of the latest step that evaluated
                      \*   the rules of a flip, taken from the state before it

vars == <<variant, cards, state, playerState, boardVersion, changeListeners,
          mutex, faceUp, controlledBy, playerStates, waitingPlayers,
          watchers, watchPc, initialVersion, mapPc, uniqueCards,
          cardMapping, mapResult, maps, mapStart, otherMap, view,
          pc, target, result, lastMove, last>>

(***************************************************************************)
(* Bounds and inputs                                                       *)
(***************************************************************************)
MaxVersion == 6

Players == {"alice", "bob"}

\* The callers of the three-player specification.
Callers == Players \cup {"carol"}

\* Player IDs that are not a non-empty string of letters, digits and
\* underscores: the empty string, and one with a space.
InvalidIds == {"", "bad id"}

\* The characters of a player ID.
Chars(playerId) ==
    CASE playerId = "alice" -> <<"a", "l", "i", "c", "e">>
      [] playerId = "bob" -> <<"b", "o", "b">>
      [] playerId = "carol" -> <<"c", "a", "r", "o", "l">>
      [] playerId = "" -> << >>
      [] playerId = "bad id" -> <<"b", "a", "d", " ", "i", "d">>

\* The characters of the class [a-zA-Z0-9_].
WordChars ==
    {"a", "b", "c", "d", "e", "f", "g", "h", "i", "j", "k", "l", "m",
     "n", "o", "p", "q", "r", "s", "t", "u", "v", "w", "x", "y", "z",
     "A", "B", "C", "D", "E", "F", "G", "H", "I", "J", "K", "L", "M",
     "N", "O", "P", "Q", "R", "S", "T", "U", "V", "W", "X", "Y", "Z",
     "0", "1", "2", "3", "4", "5", "6", "7", "8", "9", "_"}

\* /^[a-zA-Z0-9_]+$/.test(playerId)
validPlayerId(playerId) ==
    /\ Len(Chars(playerId)) > 0
    /\ \A i \in 1 .. Len(Chars(playerId)) : Chars(playerId)[i] \in WordChars

\* The cells that the calls with any player ID flip are 0 .. MaxIdInput.
MaxIdInput == 1

\* The client that calls watch, in changeListeners and watchers.
Watcher == "<watcher>"

\* The clients that call watch where several calls can be parked at once.
Watchers == {Watcher, "<watcher 2>"}

\* The three callers flip the cells 0 .. MaxThreeInput.
MaxThreeInput == 2

\* Bound on the number of map calls of a behaviour.
MaxMaps == 1

\* With look, map and watch the players flip the cells 0 .. MaxOpsInput.
MaxOpsInput == 2

\* With two watchers the players flip the cells 0 .. MaxWatchInput.
MaxWatchInput == 1

\* With two map calls the players flip the cells 0 .. MaxTwoMapsInput.
MaxTwoMapsInput == 1

\* The client that calls map, as holder of the mutex.
Mapper == "<mapper>"

\* What the transformer f of a map call returns: a card, or the empty string.
NewCards == {"A", "B", ""}

\* The same where look, map and watch are all called.
OpsNewCards == {"A", ""}

ErrTransformed == "Transformed card must be non-empty and contain no whitespace"

Positions == 0 .. 3

Null == "<null>"

Free == "<free>"

\* Card files of a 2x2 board (row-major): two pairs, and three equal cards.
Boards == { <<"A", "A", "B", "B">>, <<"A", "A", "A", "B">> }

Range(s) == { s[i] : i \in DOMAIN s }

\* The Error messages of the two implementations.
ErrEmptyFlip == "Cannot flip empty space"

ErrOwnFlip == "Cannot flip card you already control"

ErrNoCard == "No card at that position"

ErrControlled == "Card is controlled by a player"

ErrAssert == "AssertionError"

Pending == "<pending>"

IsNoCardError(r) == r \in {ErrEmptyFlip, ErrNoCard}

IsControlledError(r) == r \in {ErrOwnFlip, ErrControlled}

\* The card values of the boards and of the transformers.
CardValues == {"A", "B", "C"}

\* Two transformers f of map calls: one exchanges cards, one makes every
\* card a "C".
Exchange == [card \in CardValues |-> IF card = "A" THEN "B" ELSE "A"]

AllToC == [card \in CardValues |-> "C"]

Transformers == {Exchange, AllToC}

NoOtherMap == [pc |-> "idle", f |-> << >>, uniqueCards |-> << >>,
               transformCache |-> << >>, result |-> Pending]

NoView == [player |-> Null, spots |-> << >>, again |-> FALSE]

NoStep == [op |-> "init", player |-> Null, pos |-> 0, held |-> {},
           owners |-> {}, prev |-> {}, prevMatched |-> FALSE,
           prevTaken |-> {}, wasEmpty |-> FALSE]

(***************************************************************************)
(* board.ts                                                                *)
(***************************************************************************)

\* The mutable fields of the board.ts Board, with the calls in flight.
FlipBoard ==
    [cards |-> cards, state |-> state, playerState |-> playerState,
     boardVersion |-> boardVersion, changeListeners |-> changeListeners,
     watchPc |-> watchPc, pc |-> pc, result |-> result,
     lastMove |-> lastMove]

controlled(b, playerId) ==
    IF playerId \in DOMAIN b.playerState THEN b.playerState[playerId] ELSE {}

isControlledByOther(b, position, playerId) ==
    \E pid \in DOMAIN b.playerState :
        pid # playerId /\ position \in b.playerState[pid]

\* notifyChange as it would be if it called the first listener only.
notifyChangeFirst(b) ==
    LET first == IF b.changeListeners = << >> THEN {}
                 ELSE {Head(b.changeListeners)}
    IN  [b EXCEPT !.boardVersion = @ + 1,
                  !.changeListeners = IF @ = << >> THEN @ ELSE Tail(@),
                  !.pc = [q \in DOMAIN b.pc |->
                             IF q \in first THEN "acquire" ELSE b.pc[q]],
                  !.watchPc = [w \in Watchers |->
                                  IF w \in first
                                  THEN "woken" ELSE b.watchPc[w]]]

\* boardVersion++ and every parked resolver is called: each parked flip
\* goes round its loop again and queues for the mutex.
notifyChange(b) ==
    [b EXCEPT !.boardVersion = @ + 1,
              !.changeListeners = << >>,
              !.pc = [q \in DOMAIN b.pc |->
                         IF q \in Range(b.changeListeners)
                         THEN "acquire" ELSE b.pc[q]],
              !.watchPc = [w \in Watchers |->
                              IF w \in Range(b.changeListeners)
                              THEN "woken" ELSE b.watchPc[w]]]

flipDownUncontrolledCards(b) ==
    LET allControlled == UNION { b.playerState[q] : q \in DOMAIN b.playerState }
        toDown == { i \in Positions : /\ b.cards[i] # Null
                                      /\ b.state[i] = "up"
                                      /\ i \notin allControlled }
        b1 == [b EXCEPT !.state = [i \in Positions |->
                                     IF i \in toDown THEN "down" ELSE b.state[i]]]
    IN  IF toDown # {} THEN notifyChange(b1) ELSE b1

flipFirstCard(b, playerId, position) ==
    IF isControlledByOther(b, position, playerId)
    THEN [b EXCEPT !.pc[playerId] = "toWait"]
    ELSE LET b1 == flipDownUncontrolledCards(b)
             b2 == [b1 EXCEPT !.state[position] = "up",
                              !.playerState[playerId] = @ \cup {position},
                              !.lastMove[playerId] = {}]
             b3 == notifyChange(b2)
         IN  [b3 EXCEPT !.pc[playerId] = "checkRep"]

flipSecondCard(b, playerId, position) ==
    LET held == b.playerState[playerId]
        firstPosition == CHOOSE f \in held : TRUE
    IN  IF position \in held
        THEN LET b1 == [b EXCEPT !.playerState[playerId] = {},
                                 !.lastMove[playerId] = held]
                 b2 == notifyChange(b1)
             IN  [b2 EXCEPT !.pc[playerId] = "idle",
                            !.result[playerId] = ErrOwnFlip]
        ELSE IF b.cards[firstPosition] = Null
        THEN [b EXCEPT !.pc[playerId] = "idle",
                       !.result[playerId] = ErrAssert]
        ELSE LET b1 == [b EXCEPT !.state[position] = "up"]
             IN  IF b1.cards[firstPosition] = b1.cards[position]
                 THEN LET b2 == [b1 EXCEPT !.playerState[playerId] =
                                               @ \cup {position}]
                          b3 == notifyChange(b2)
                      IN  [b3 EXCEPT !.pc[playerId] = "checkRep"]
                 ELSE LET b2 == [b1 EXCEPT !.playerState[playerId] = {},
                                           !.lastMove[playerId] =
                                               held \cup {position}]
                          b3 == notifyChange(b2)
                      IN  [b3 EXCEPT !.pc[playerId] = "checkRep"]

\* removeMatchedPair as it would be without its call of notifyChange.
removeMatchedPairSilent(b, playerId) ==
    LET pair == b.playerState[playerId]
    IN  [b EXCEPT !.cards = [i \in Positions |->
                                IF i \in pair THEN Null ELSE b.cards[i]],
                  !.state = [i \in Positions |->
                                IF i \in pair THEN "down" ELSE b.state[i]],
                  !.playerState[playerId] = {}]

removeMatchedPair(b, playerId) ==
    LET pair == b.playerState[playerId]
        b1 == [b EXCEPT !.cards = [i \in Positions |->
                                     IF i \in pair THEN Null ELSE b.cards[i]],
                        !.state = [i \in Positions |->
                                     IF i \in pair THEN "down" ELSE b.state[i]],
                        !.playerState[playerId] = {}]
    IN  notifyChange(b1)

\* tryFlip as it would be if the flip of an empty space notified a change.
tryFlipEmptyNotifies(b, playerId, position) ==
    IF b.cards[position] = Null
    THEN [notifyChange(b) EXCEPT !.pc[playerId] = "idle",
                                 !.result[playerId] = ErrEmptyFlip]
    ELSE LET b1 == IF playerId \in DOMAIN b.playerState THEN b
                   ELSE [b EXCEPT !.playerState = (playerId :> {}) @@ @]
             controlledCount == Cardinality(b1.playerState[playerId])
         IN  IF controlledCount = 0 THEN flipFirstCard(b1, playerId, position)
             ELSE IF controlledCount = 1
                  THEN flipSecondCard(b1, playerId, position)
                  ELSE [removeMatchedPair(b1, playerId)
                            EXCEPT !.pc[playerId] = "removed"]

\* One run of tryFlip up to its return or to the await of removeMatchedPair.
tryFlip(b, playerId, position) ==
    IF b.cards[position] = Null
    THEN [b EXCEPT !.pc[playerId] = "idle", !.result[playerId] = ErrEmptyFlip]
    ELSE LET b1 == IF playerId \in DOMAIN b.playerState THEN b
                   ELSE [b EXCEPT !.playerState = (playerId :> {}) @@ @]
             controlledCount == Cardinality(b1.playerState[playerId])
         IN  IF controlledCount = 0 THEN flipFirstCard(b1, playerId, position)
             ELSE IF controlledCount = 1
                  THEN flipSecondCard(b1, playerId, position)
                  ELSE [removeMatchedPair(b1, playerId)
                            EXCEPT !.pc[playerId] = "removed"]

\* checkRep of board.ts: TRUE when no assertion fails.
checkRepFlip(b) ==
    /\ b.boardVersion >= 0
    /\ \A i \in Positions : b.cards[i] # Null => b.cards[i] # ""
    /\ \A p \in DOMAIN b.playerState :
          /\ Cardinality(b.playerState[p]) <= 2
          /\ \A i \in b.playerState[p] : b.cards[i] # Null
          /\ Cardinality(b.playerState[p]) = 2 =>
                \A i, j \in b.playerState[p] : b.cards[i] = b.cards[j]
    /\ \A p, q \in DOMAIN b.playerState :
          p # q => b.playerState[p] \cap b.playerState[q] = {}

\* look(playerId): the spots in row-major order (after the "2x2" line).
look(b, playerId) ==
    [i \in Positions |->
        IF b.cards[i] = Null THEN <<"none">>
        ELSE IF b.state[i] = "down" THEN <<"down">>
        ELSE IF i \in controlled(b, playerId) THEN <<"my", b.cards[i]>>
        ELSE <<"up", b.cards[i]>>]

\* The digest of a step of playerId on position, taken before the step.
FlipDigest(op, playerId, position) ==
    [op |-> op, player |-> playerId, pos |-> position,
     held |-> controlled(FlipBoard, playerId),
     owners |-> { q \in DOMAIN playerState : position \in playerState[q] },
     prev |-> lastMove[playerId], prevMatched |-> FALSE,
     prevTaken |-> { i \in lastMove[playerId] :
                       isControlledByOther(FlipBoard, i, playerId) },
     wasEmpty |-> cards[position] = Null]

\* The step is not a step of look, map or watch.
NoLookMapWatch ==
    /\ view' = NoView
    /\ UNCHANGED <<initialVersion, mapPc, uniqueCards, cardMapping, mapResult,
                   maps, mapStart, otherMap>>

InstallFlip(b) ==
    /\ cards' = b.cards
    /\ state' = b.state
    /\ playerState' = b.playerState
    /\ boardVersion' = b.boardVersion
    /\ changeListeners' = b.changeListeners
    /\ watchPc' = b.watchPc
    /\ pc' = b.pc
    /\ result' = b.result
    /\ lastMove' = b.lastMove
    /\ UNCHANGED <<variant, faceUp, controlledBy, playerStates, waitingPlayers,
                   watchers>>

\* flip(playerId, row, col) is called; a call whose playerId fails the
\* assertion is rejected, any other call queues for the mutex.  The
\* continuation of a flip that left the mutex to wait is already in the job
\* queue, and runs before the job that makes a new call.
StartFlip(p, position) ==
    /\ variant = "flip"
    /\ pc[p] = "idle"
    /\ \A q \in Players : pc[q] # "toWait"
    /\ IF validPlayerId(p)
       THEN /\ pc' = [pc EXCEPT ![p] = "acquire"]
            /\ result' = [result EXCEPT ![p] = Pending]
       ELSE /\ pc' = pc
            /\ result' = [result EXCEPT ![p] = ErrAssert]
    /\ target' = [target EXCEPT ![p] = position]
    /\ NoLookMapWatch
    /\ UNCHANGED <<watchPc, last, variant, cards, state, playerState, boardVersion,
                   changeListeners, mutex, faceUp, controlledBy, playerStates,
                   waitingPlayers, watchers, lastMove>>

\* mutex.runExclusive(() => tryFlip(playerId, position))
TryFlip(p) ==
    /\ variant = "flip"
    /\ pc[p] = "acquire"
    /\ mutex = Free
    /\ LET b == tryFlip(FlipBoard, p, target[p])
       IN  /\ b.boardVersion <= MaxVersion
           /\ InstallFlip(b)
           /\ mutex' = IF b.pc[p] = "removed" THEN p ELSE Free
    /\ NoLookMapWatch
    /\ last' = FlipDigest("tryFlip", p, target[p])
    /\ UNCHANGED target

\* tryFlip resumes after `await this.removeMatchedPair(...)` and calls itself.
RetryFlip(p) ==
    /\ variant = "flip"
    /\ pc[p] = "removed"
    /\ mutex = p
    /\ LET b == tryFlip(FlipBoard, p, target[p])
       IN  /\ b.boardVersion <= MaxVersion
           /\ InstallFlip(b)
           /\ mutex' = IF b.pc[p] = "removed" THEN p ELSE Free
    /\ NoLookMapWatch
    /\ last' = FlipDigest("retry", p, target[p])
    /\ UNCHANGED target

\* `await this.waitForChange()`: the resolver is pushed on changeListeners.
WaitForChange(p) ==
    /\ variant = "flip"
    /\ pc[p] = "toWait"
    /\ changeListeners' = Append(changeListeners, p)
    /\ pc' = [pc EXCEPT ![p] = "parked"]
    /\ NoLookMapWatch
    /\ UNCHANGED <<watchPc, last, variant, cards, state, playerState, boardVersion, mutex,
                   faceUp, controlledBy, playerStates, waitingPlayers, watchers,
                   target, result, lastMove>>

\* mutex.runExclusive(() => checkRep()); return this.look(playerId)
CheckRepFlip(p) ==
    /\ variant = "flip"
    /\ pc[p] = "checkRep"
    /\ mutex = Free
    /\ pc' = [pc EXCEPT ![p] = "idle"]
    /\ result' = [result EXCEPT ![p] =
                     IF checkRepFlip(FlipBoard) THEN "ok" ELSE ErrAssert]
    /\ NoLookMapWatch
    /\ UNCHANGED <<watchPc, last, variant, cards, state, playerState, boardVersion,
                   changeListeners, mutex, faceUp, controlledBy, playerStates,
                   waitingPlayers, watchers, target, lastMove>>

\* The distinct card values of the cells i, i + 1, ... added to acc: the
\* iteration order of the Set that map fills.
RECURSIVE collectUnique(_, _, _)
collectUnique(c, i, acc) ==
    IF i \notin Positions THEN acc
    ELSE collectUnique(c, i + 1,
                       IF c[i] # Null /\ c[i] \notin Range(acc)
                       THEN Append(acc, c[i]) ELSE acc)

\* The value that f returned for card.
get(unique, mapping, card) ==
    mapping[CHOOSE k \in DOMAIN unique : unique[k] = card]

\* The last loop of map as it would be if it stopped after the first cell of
\* each card.
applyCardMappingFirstCell(c, unique, mapping) ==
    [i \in Positions |->
        IF c[i] = Null THEN Null
        ELSE IF \E j \in Positions : j < i /\ c[j] = c[i] THEN c[i]
        ELSE get(unique, mapping, c[i])]

\* The last loop of map as it would be without the test for null.
applyCardMappingEvery(c, unique, mapping) ==
    [i \in Positions |->
        IF c[i] = Null THEN mapping[1] ELSE get(unique, mapping, c[i])]

\* The last loop of map: space.card = cardMapping.get(space.card).
applyCardMapping(c, unique, mapping) ==
    [i \in Positions |->
        IF c[i] = Null THEN Null ELSE get(unique, mapping, c[i])]

\* The end of map as it would be if the change were notified once for the
\* rewrite and once more before checkRep.
finishMapNotifyingTwice(b, unique, mapping) ==
    notifyChange(notifyChange(
        [b EXCEPT !.cards = applyCardMapping(b.cards, unique, mapping)]))

\* The end of map once every unique card is transformed.
finishMap(b, unique, mapping) ==
    notifyChange([b EXCEPT !.cards = applyCardMapping(b.cards, unique, mapping)])

\* The step is a step of map.
MapStep ==
    /\ view' = NoView
    /\ UNCHANGED <<initialVersion, target, last, otherMap>>

\* map(playerId, f) is called; the call queues for the mutex.
StartMap ==
    /\ variant = "flip"
    /\ mapPc = "idle"
    /\ maps < MaxMaps
    /\ mapPc' = "acquire"
    /\ maps' = maps + 1
    /\ mapResult' = Pending
    /\ mapStart' = cards
    /\ MapStep
    /\ UNCHANGED <<variant, cards, state, playerState, boardVersion,
                   changeListeners, mutex, faceUp, controlledBy, playerStates,
                   waitingPlayers, watchers, watchPc, uniqueCards, cardMapping,
                   pc, result, lastMove>>

\* The mutex is granted to map: the unique cards are collected and f is
\* called on the first of them; a board without cards is mapped at once.
AcquireMap ==
    /\ variant = "flip"
    /\ mapPc = "acquire"
    /\ mutex = Free
    /\ LET unique == collectUnique(cards, 0, << >>)
       IN  IF unique # << >>
           THEN /\ uniqueCards' = unique
                /\ mapPc' = "transform"
                /\ mutex' = Mapper
                /\ UNCHANGED <<variant, cards, state, playerState,
                               boardVersion, changeListeners, faceUp,
                               controlledBy, playerStates, waitingPlayers,
                               watchers, watchPc, mapResult, pc, result,
                               lastMove>>
           ELSE LET b == finishMap(FlipBoard, unique, << >>)
                IN  /\ b.boardVersion <= MaxVersion
                    /\ InstallFlip(b)
                    /\ mapResult' = IF checkRepFlip(b) THEN "ok" ELSE ErrAssert
                    /\ mapPc' = "idle"
                    /\ UNCHANGED <<uniqueCards, mutex>>
    /\ cardMapping' = << >>
    /\ MapStep
    /\ UNCHANGED <<maps, mapStart>>

\* f returns newCard for the next unique card: the value is rejected, or it
\* is cached and f is called on the next card, or it was the last one and
\* the cards are rewritten.
TransformMap(newCard) ==
    /\ variant = "flip"
    /\ mapPc = "transform"
    /\ IF newCard = ""
       THEN /\ mapResult' = ErrTransformed
            /\ mapPc' = "idle"
            /\ mutex' = Free
            /\ uniqueCards' = << >>
            /\ cardMapping' = << >>
            /\ UNCHANGED <<variant, cards, state, playerState, boardVersion,
                           changeListeners, faceUp, controlledBy, playerStates,
                           waitingPlayers, watchers, watchPc, pc, result,
                           lastMove>>
       ELSE IF Len(cardMapping) + 1 < Len(uniqueCards)
       THEN /\ cardMapping' = Append(cardMapping, newCard)
            /\ UNCHANGED <<variant, cards, state, playerState, boardVersion,
                           changeListeners, mutex, faceUp, controlledBy,
                           playerStates, waitingPlayers, watchers, watchPc,
                           uniqueCards, mapPc, mapResult, pc, result,
                           lastMove>>
       ELSE LET b == finishMap(FlipBoard, uniqueCards,
                               Append(cardMapping, newCard))
            IN  /\ b.boardVersion <= MaxVersion
                /\ InstallFlip(b)
                /\ mapResult' = IF checkRepFlip(b) THEN "ok" ELSE ErrAssert
                /\ mapPc' = "idle"
                /\ mutex' = Free
                /\ uniqueCards' = << >>
                /\ cardMapping' = << >>
    /\ MapStep
    /\ UNCHANGED <<maps, mapStart>>

\* look as it would be if it created the entry of a player it does not know.
LookFlipRegistering(p) ==
    /\ variant = "flip"
    /\ view' = [player |-> p, spots |-> look(FlipBoard, p),
                again |-> view.player = p]
    /\ playerState' = IF p \in DOMAIN playerState THEN playerState
                      ELSE (p :> {}) @@ playerState
    /\ UNCHANGED <<variant, cards, state, boardVersion,
                   changeListeners, mutex, faceUp, controlledBy, playerStates,
                   waitingPlayers, watchers, watchPc, initialVersion, mapPc,
                   uniqueCards, cardMapping, mapResult, maps, mapStart,
                   otherMap, pc, target, result, lastMove, last>>

\* look(playerId) is called and returns.
LookFlip(p) ==
    /\ variant = "flip"
    /\ view' = [player |-> p, spots |-> look(FlipBoard, p),
                again |-> view.player = p]
    /\ UNCHANGED <<variant, cards, state, playerState, boardVersion,
                   changeListeners, mutex, faceUp, controlledBy, playerStates,
                   waitingPlayers, watchers, watchPc, initialVersion, mapPc,
                   uniqueCards, cardMapping, mapResult, maps, mapStart,
                   otherMap, pc, target, result, lastMove, last>>

\* The step is a step of watch.
WatchStep ==
    UNCHANGED <<variant, cards, state, playerState, boardVersion, mutex,
               faceUp, controlledBy, playerStates, waitingPlayers, mapPc,
               uniqueCards, cardMapping, mapResult, maps, mapStart,
               otherMap, pc, target, result, lastMove, last>>

\* watch(playerId) is called: the version is read and, being the same, the
\* call waits for a change.
Watch(w) ==
    /\ variant = "flip"
    /\ watchPc[w] = "idle"
    /\ initialVersion' = [initialVersion EXCEPT ![w] = boardVersion]
    /\ changeListeners' = Append(changeListeners, w)
    /\ watchPc' = [watchPc EXCEPT ![w] = "parked"]
    /\ view' = NoView
    /\ WatchStep
    /\ UNCHANGED watchers

\* The watch call continues after its await: it returns look(playerId) when
\* the version has changed, and waits again when it has not.
ResumeWatch(w) ==
    /\ variant = "flip"
    /\ watchPc[w] = "woken"
    /\ IF boardVersion = initialVersion[w]
       THEN /\ changeListeners' = Append(changeListeners, w)
            /\ watchPc' = [watchPc EXCEPT ![w] = "parked"]
            /\ view' = NoView
            /\ UNCHANGED initialVersion
       ELSE /\ watchPc' = [watchPc EXCEPT ![w] = "idle"]
            /\ initialVersion' = [initialVersion EXCEPT ![w] = 0]
            /\ view' = [player |-> w, spots |-> look(FlipBoard, w),
                        again |-> FALSE]
            /\ UNCHANGED changeListeners
    /\ WatchStep
    /\ UNCHANGED watchers

(***************************************************************************)
(* part_001                                                                *)
(***************************************************************************)

\* The mutable fields of the part_001 Board, with the calls in flight.
FlipCardBoard ==
    [cards |-> cards, faceUp |-> faceUp, controlledBy |-> controlledBy,
     playerStates |-> playerStates, waitingPlayers |-> waitingPlayers,
     watchers |-> watchers, watchPc |-> watchPc, pc |-> pc,
     result |-> result]

NewPlayerState ==
    [previousCards |-> << >>, previousMatched |-> FALSE, currentCards |-> << >>]

\* checkRep of part_001: TRUE when no assertion fails.
checkRepFlipCard(b) ==
    /\ \A i \in Positions :
          /\ b.cards[i] # Null => b.cards[i] # ""
          /\ b.cards[i] = Null =>
                b.faceUp[i] = FALSE /\ b.controlledBy[i] = Null
          /\ b.controlledBy[i] # Null =>
                b.faceUp[i] = TRUE /\ b.cards[i] # Null
    /\ \A p \in DOMAIN b.playerStates :
          Len(b.playerStates[p].currentCards) <= 2

\* The call of playerId ends: with a thrown Error, or through checkRep().
Throw(b, playerId, error) ==
    [b EXCEPT !.pc[playerId] = "idle", !.result[playerId] = error]

Return(b, playerId) ==
    [b EXCEPT !.pc[playerId] = "idle",
              !.result[playerId] =
                  IF checkRepFlipCard(b) THEN "ok" ELSE ErrAssert]

\* notifyWaitingPlayers as it would be if the shifted entry were not resolved.
notifyWaitingPlayersNoResolve(b, position) ==
    LET waitList == b.waitingPlayers[position]
    IN  IF Len(waitList) > 0
        THEN [b EXCEPT !.waitingPlayers[position] = Tail(waitList)]
        ELSE b

\* notifyWaitingPlayers as it would be if it popped the newest entry.
notifyWaitingPlayersLast(b, position) ==
    LET waitList == b.waitingPlayers[position]
    IN  IF Len(waitList) > 0
        THEN [b EXCEPT !.waitingPlayers[position] =
                           SubSeq(waitList, 1, Len(waitList) - 1),
                       !.pc[waitList[Len(waitList)].playerId] = "woken"]
        ELSE b

\* The first entry of the position's wait list is shifted out and resolved.
notifyWaitingPlayers(b, position) ==
    LET waitList == b.waitingPlayers[position]
    IN  IF Len(waitList) > 0
        THEN [b EXCEPT !.waitingPlayers[position] = Tail(waitList),
                       !.pc[Head(waitList).playerId] = "woken"]
        ELSE b

\* Every watcher is shifted out of the array and called.
notifyWatchers(b) ==
    [b EXCEPT !.watchers = << >>,
              !.watchPc = [w \in Watchers |->
                              IF w \in Range(b.watchers)
                              THEN "woken" ELSE b.watchPc[w]]]

\* Rule 3-A: remove the matched cards of the previous move, in list order.
RECURSIVE Rule3A(_, _)
Rule3A(b, previousCards) ==
    IF previousCards = << >> THEN b
    ELSE LET pos == Head(previousCards)
             b1 == IF b.cards[pos] # Null
                   THEN notifyWaitingPlayers(
                            [b EXCEPT !.cards[pos] = Null,
                                      !.faceUp[pos] = FALSE,
                                      !.controlledBy[pos] = Null], pos)
                   ELSE b
         IN  Rule3A(b1, Tail(previousCards))

\* Rule 3-B as it would be without the test of controlledBy.
Rule3BAnyController(b, previousCards) ==
    [b EXCEPT !.faceUp = [pos \in Positions |->
        IF /\ pos \in Range(previousCards)
           /\ b.cards[pos] # Null
           /\ b.faceUp[pos] = TRUE
        THEN FALSE ELSE b.faceUp[pos]]]

\* Rule 3-B: turn the non-matching cards of the previous move face down.
Rule3B(b, previousCards) ==
    [b EXCEPT !.faceUp = [pos \in Positions |->
        IF /\ pos \in Range(previousCards)
           /\ b.cards[pos] # Null
           /\ b.faceUp[pos] = TRUE
           /\ b.controlledBy[pos] = Null
        THEN FALSE ELSE b.faceUp[pos]]]

\* Rule 3: cleanup of the previous move, then the previous move is cleared.
Cleanup(b, playerId) ==
    LET ps == b.playerStates[playerId]
        b1 == IF ps.previousMatched
              THEN Rule3A(b, ps.previousCards)
              ELSE Rule3B(b, ps.previousCards)
        boardChanged == b1.cards # b.cards \/ b1.faceUp # b.faceUp
        b2 == [b1 EXCEPT !.playerStates[playerId].previousCards = << >>,
                         !.playerStates[playerId].previousMatched = FALSE]
    IN  IF boardChanged THEN notifyWatchers(b2) ELSE b2

\* The first card as it would be without the while loop of Rule 1-D.
FirstCardNoWait(b, playerId, position) ==
    IF b.cards[position] = Null
    THEN Throw(b, playerId, ErrNoCard)
    ELSE LET b1 == IF b.faceUp[position] = FALSE
                   THEN notifyWatchers([b EXCEPT !.faceUp[position] = TRUE])
                   ELSE b
         IN  Return([b1 EXCEPT !.controlledBy[position] = playerId,
                               !.playerStates[playerId].currentCards =
                                   Append(@, position)], playerId)

\* Rules 1-D, 1-B, 1-C: the while loop and what follows it.  A call that
\* finds the card controlled by another player pushes itself on the wait list.
FirstCard(b, playerId, position) ==
    IF b.controlledBy[position] # Null /\ b.controlledBy[position] # playerId
    THEN [b EXCEPT !.waitingPlayers[position] =
                       Append(@, [playerId |-> playerId]),
                   !.pc[playerId] = "parked"]
    ELSE IF b.cards[position] = Null
    THEN Throw(b, playerId, ErrNoCard)
    ELSE LET b1 == IF b.faceUp[position] = FALSE
                   THEN notifyWatchers([b EXCEPT !.faceUp[position] = TRUE])
                   ELSE b
         IN  Return([b1 EXCEPT !.controlledBy[position] = playerId,
                               !.playerStates[playerId].currentCards =
                                   Append(@, position)], playerId)

\* Relinquish as it would be if the released cards were not remembered.
RelinquishForgetting(b, playerId, firstPos, previousCards) ==
    LET b1 == notifyWaitingPlayers([b EXCEPT !.controlledBy[firstPos] = Null],
                                   firstPos)
    IN  [b1 EXCEPT !.playerStates[playerId].previousCards = << >>,
                   !.playerStates[playerId].previousMatched = FALSE,
                   !.playerStates[playerId].currentCards = << >>]

\* Relinquish as it would be if a release called notifyWatchers.
RelinquishNotifying(b, playerId, firstPos, previousCards) ==
    LET b1 == notifyWaitingPlayers([b EXCEPT !.controlledBy[firstPos] = Null],
                                   firstPos)
    IN  notifyWatchers(
            [b1 EXCEPT !.playerStates[playerId].previousCards = previousCards,
                       !.playerStates[playerId].previousMatched = FALSE,
                       !.playerStates[playerId].currentCards = << >>])

\* Rules 2-A, 2-B, 2-E: control of the first card is given up.
Relinquish(b, playerId, firstPos, previousCards) ==
    LET b1 == notifyWaitingPlayers([b EXCEPT !.controlledBy[firstPos] = Null],
                                   firstPos)
    IN  [b1 EXCEPT !.playerStates[playerId].previousCards = previousCards,
                   !.playerStates[playerId].previousMatched = FALSE,
                   !.playerStates[playerId].currentCards = << >>]

\* Rule 2-D as it would be if a match released both cards.
Rule2DReleasing(b, playerId, firstPos, position) ==
    [b EXCEPT !.controlledBy[position] = Null,
              !.controlledBy[firstPos] = Null,
              !.playerStates[playerId].previousCards = <<firstPos, position>>,
              !.playerStates[playerId].previousMatched = TRUE,
              !.playerStates[playerId].currentCards = << >>]

\* Rule 2-D: the cards match.
Rule2D(b, playerId, firstPos, position) ==
    [b EXCEPT !.controlledBy[position] = playerId,
              !.playerStates[playerId].previousCards = <<firstPos, position>>,
              !.playerStates[playerId].previousMatched = TRUE,
              !.playerStates[playerId].currentCards = << >>]

\* The second card as it would be if it waited for a card that another
\* player controls, as the first card does.
SecondCardWaiting(b, playerId, position) ==
    LET firstPos == b.playerStates[playerId].currentCards[1]
    IN  IF b.cards[position] = Null
        THEN Throw(Relinquish(b, playerId, firstPos, <<firstPos>>),
                   playerId, ErrNoCard)
        ELSE IF b.controlledBy[position] \notin {Null, playerId}
        THEN [b EXCEPT !.waitingPlayers[position] =
                           Append(@, [playerId |-> playerId]),
                       !.pc[playerId] = "parked"]
        ELSE Throw(Relinquish(b, playerId, firstPos, <<firstPos>>),
                   playerId, ErrControlled)

SecondCard(b, playerId, position) ==
    LET firstPos == b.playerStates[playerId].currentCards[1]
    IN  IF b.cards[position] = Null
        THEN Throw(Relinquish(b, playerId, firstPos, <<firstPos>>),
                   playerId, ErrNoCard)
        ELSE IF b.controlledBy[position] # Null
        THEN Throw(Relinquish(b, playerId, firstPos, <<firstPos>>),
                   playerId, ErrControlled)
        ELSE LET b1 == IF b.faceUp[position] = FALSE
                       THEN notifyWatchers([b EXCEPT !.faceUp[position] = TRUE])
                       ELSE b
             IN  IF b1.cards[firstPos] = b1.cards[position]
                 THEN Return(Rule2D(b1, playerId, firstPos, position), playerId)
                 ELSE Return(Relinquish(b1, playerId, firstPos,
                                        <<firstPos, position>>), playerId)

\* flipCard(playerId, row, column) from its call to its first await or its end.
flipCard(b, playerId, position) ==
    LET b0 == IF playerId \in DOMAIN b.playerStates THEN b
              ELSE [b EXCEPT !.playerStates = (playerId :> NewPlayerState) @@ @]
        playerState0 == b0.playerStates[playerId]
        numControlled == Len(playerState0.currentCards)
        b1 == IF numControlled = 0 /\ Len(playerState0.previousCards) > 0
              THEN Cleanup(b0, playerId) ELSE b0
    IN  IF numControlled = 0
        THEN IF b1.cards[position] = Null
             THEN Throw(b1, playerId, ErrNoCard)
             ELSE FirstCard(b1, playerId, position)
        ELSE IF numControlled = 1
        THEN SecondCard(b1, playerId, position)
        ELSE Throw(b1, playerId, "Player already controls 2 cards")

\* getBoardState as it would be if it showed 'my' for every controlled card.
getBoardStateAnyController(b, playerId) ==
    [i \in Positions |->
        IF b.cards[i] = Null THEN <<"none">>
        ELSE IF b.faceUp[i] = FALSE THEN <<"down">>
        ELSE IF b.controlledBy[i] # Null THEN <<"my", b.cards[i]>>
        ELSE <<"up", b.cards[i]>>]

\* getBoardState(playerId): the spots in row-major order.
getBoardState(b, playerId) ==
    [i \in Positions |->
        IF b.cards[i] = Null THEN <<"none">>
        ELSE IF b.faceUp[i] = FALSE THEN <<"down">>
        ELSE IF b.controlledBy[i] = playerId THEN <<"my", b.cards[i]>>
        ELSE <<"up", b.cards[i]>>]

currentCards(playerId) ==
    IF playerId \in DOMAIN playerStates
    THEN Range(playerStates[playerId].currentCards) ELSE {}

previousCards(playerId) ==
    IF playerId \in DOMAIN playerStates
    THEN Range(playerStates[playerId].previousCards) ELSE {}

previousMatched(playerId) ==
    playerId \in DOMAIN playerStates /\ playerStates[playerId].previousMatched

\* The digest of a step of playerId on position, taken before the step.
FlipCardDigest(op, playerId, position) ==
    [op |-> op, player |-> playerId, pos |-> position,
     held |-> currentCards(playerId),
     owners |-> {controlledBy[position]} \ {Null},
     prev |-> previousCards(playerId),
     prevMatched |-> previousMatched(playerId),
     prevTaken |-> { i \in previousCards(playerId) :
                       controlledBy[i] \notin {Null, playerId} },
     wasEmpty |-> cards[position] = Null]

InstallFlipCard(b) ==
    /\ cards' = b.cards
    /\ faceUp' = b.faceUp
    /\ controlledBy' = b.controlledBy
    /\ playerStates' = b.playerStates
    /\ waitingPlayers' = b.waitingPlayers
    /\ watchers' = b.watchers
    /\ watchPc' = b.watchPc
    /\ pc' = b.pc
    /\ result' = b.result
    /\ UNCHANGED <<variant, state, playerState, boardVersion, changeListeners,
                   mutex, lastMove>>

\* flipCard(playerId, row, column) is called by a player with no call in flight.
FlipCard(p, position) ==
    /\ variant = "flipCard"
    /\ pc[p] = "idle"
    /\ InstallFlipCard(flipCard([FlipCardBoard EXCEPT !.result[p] = Pending],
                                p, position))
    /\ target' = [target EXCEPT ![p] = position]
    /\ NoLookMapWatch
    /\ last' = FlipCardDigest("flipCard", p, position)

\* flipCard(playerId, row, column) is called by a player whose earlier call is
\* parked in the while loop of Rule 1-D.  The new call is taken when it ends
\* without parking and leaves the entry of the earlier call on its wait list;
\* the earlier call stays parked with its own position.
FlipCardAgain(p, position) ==
    /\ variant = "flipCard"
    /\ pc[p] = "parked"
    /\ LET b == flipCard(FlipCardBoard, p, position)
       IN  /\ b.pc[p] = "idle"
           /\ \E i \in 1 .. Len(b.waitingPlayers[target[p]]) :
                 b.waitingPlayers[target[p]][i].playerId = p
           /\ InstallFlipCard([b EXCEPT !.pc[p] = "parked",
                                        !.result[p] = Pending])
    /\ NoLookMapWatch
    /\ last' = FlipCardDigest("flipCard", p, position)
    /\ UNCHANGED target

\* A resolved call continues after its await: the while condition is
\* evaluated again.
Resume(p) ==
    /\ variant = "flipCard"
    /\ pc[p] = "woken"
    /\ InstallFlipCard(FirstCard(FlipCardBoard, p, target[p]))
    /\ NoLookMapWatch
    /\ last' = FlipCardDigest("resume", p, target[p])
    /\ UNCHANGED target

\* The update loop of mapCards: the cells of every group whose card has a
\* different value in the cache get that value.
applyTransformCache(c, unique, cache) ==
    [i \in Positions |->
        IF /\ c[i] # Null
           /\ c[i] \in Range(unique)
           /\ get(unique, cache, c[i]) # c[i]
        THEN get(unique, cache, c[i]) ELSE c[i]]

\* The end of mapCards once every unique card is transformed.
finishMapCards(b, unique, cache) ==
    LET b1 == [b EXCEPT !.cards = applyTransformCache(b.cards, unique, cache)]
    IN  IF b1.cards # b.cards THEN notifyWatchers(b1) ELSE b1

\* mapCards(f) is called: the unique cards are collected and f is called on
\* the first of them; a board without cards is mapped at once.
MapCards ==
    /\ variant = "flipCard"
    /\ mapPc = "idle"
    /\ maps < MaxMaps
    /\ maps' = maps + 1
    /\ mapStart' = cards
    /\ LET unique == collectUnique(cards, 0, << >>)
       IN  IF unique # << >>
           THEN /\ uniqueCards' = unique
                /\ mapPc' = "transform"
                /\ mapResult' = Pending
           ELSE /\ mapResult' = IF checkRepFlipCard(FlipCardBoard)
                                 THEN "ok" ELSE ErrAssert
                /\ UNCHANGED <<uniqueCards, mapPc>>
    /\ cardMapping' = << >>
    /\ MapStep
    /\ UNCHANGED <<variant, cards, state, playerState, boardVersion,
                   changeListeners, mutex, faceUp, controlledBy, playerStates,
                   waitingPlayers, watchers, watchPc, pc, result, lastMove>>

\* mapCards as it would be if the first cell of a card were rewritten as
\* soon as f has returned for the card, and the other cells at the end.
TransformMapCardsEager(newCard) ==
    /\ variant = "flipCard"
    /\ mapPc = "transform"
    /\ IF Len(cardMapping) + 1 < Len(uniqueCards)
       THEN LET oldCard == uniqueCards[Len(cardMapping) + 1]
                cells == { i \in Positions : cards[i] = oldCard }
            IN  /\ cards' = [i \in Positions |->
                                IF i \in cells /\ \A j \in cells : i <= j
                                THEN newCard ELSE cards[i]]
                /\ cardMapping' = Append(cardMapping, newCard)
                /\ UNCHANGED <<variant, state, playerState, boardVersion,
                               changeListeners, mutex, faceUp, controlledBy,
                               playerStates, waitingPlayers, watchers, watchPc,
                               uniqueCards, mapPc, mapResult, pc, result,
                               lastMove>>
       ELSE LET cache == Append(cardMapping, newCard)
                b == [FlipCardBoard EXCEPT !.cards =
                         [i \in Positions |->
                             IF mapStart[i] = Null \/ cards[i] = Null
                             THEN cards[i]
                             ELSE get(uniqueCards, cache, mapStart[i])]]
            IN  /\ InstallFlipCard(b)
                /\ mapResult' = "ok"
                /\ mapPc' = "idle"
                /\ uniqueCards' = << >>
                /\ cardMapping' = << >>
    /\ MapStep
    /\ UNCHANGED <<maps, mapStart>>

\* f returns newCard for the next unique card: it is cached and f is called
\* on the next card, or it was the last one and the cards are rewritten.
TransformMapCards(newCard) ==
    /\ variant = "flipCard"
    /\ mapPc = "transform"
    /\ IF Len(cardMapping) + 1 < Len(uniqueCards)
       THEN /\ cardMapping' = Append(cardMapping, newCard)
            /\ UNCHANGED <<variant, cards, state, playerState, boardVersion,
                           changeListeners, mutex, faceUp, controlledBy,
                           playerStates, waitingPlayers, watchers, watchPc,
                           uniqueCards, mapPc, mapResult, pc, result,
                           lastMove>>
       ELSE LET b == finishMapCards(FlipCardBoard, uniqueCards,
                                    Append(cardMapping, newCard))
            IN  /\ InstallFlipCard(b)
                /\ mapResult' = IF checkRepFlipCard(b) THEN "ok" ELSE ErrAssert
                /\ mapPc' = "idle"
                /\ uniqueCards' = << >>
                /\ cardMapping' = << >>
    /\ MapStep
    /\ UNCHANGED <<maps, mapStart>>

\* A second mapCards(f) call is made while the first may be running: its own
\* uniqueCards are collected and f is called on the first of them.
MapCardsOther(f) ==
    /\ variant = "flipCard"
    /\ otherMap.pc = "idle"
    /\ LET unique == collectUnique(cards, 0, << >>)
       IN  otherMap' =
               IF unique # << >>
               THEN [pc |-> "transform", f |-> f, uniqueCards |-> unique,
                     transformCache |-> << >>, result |-> Pending]
               ELSE [pc |-> "done", f |-> f, uniqueCards |-> unique,
                     transformCache |-> << >>,
                     result |-> IF checkRepFlipCard(FlipCardBoard)
                                THEN "ok" ELSE ErrAssert]
    /\ view' = NoView
    /\ UNCHANGED <<variant, cards, state, playerState, boardVersion,
                   changeListeners, mutex, faceUp, controlledBy, playerStates,
                   waitingPlayers, watchers, watchPc, initialVersion, mapPc,
                   uniqueCards, cardMapping, mapResult, maps, mapStart, pc,
                   target, result, lastMove, last>>

\* f returns to the second call: the value is cached and f is called on the
\* next card, or it was the last one and the cards are rewritten.
TransformOther ==
    /\ variant = "flipCard"
    /\ otherMap.pc = "transform"
    /\ LET card == otherMap.uniqueCards[Len(otherMap.transformCache) + 1]
           cache == Append(otherMap.transformCache, otherMap.f[card])
       IN  IF Len(cache) < Len(otherMap.uniqueCards)
           THEN /\ otherMap' = [otherMap EXCEPT !.transformCache = cache]
                /\ UNCHANGED <<variant, cards, state, playerState, boardVersion,
                               changeListeners, mutex, faceUp, controlledBy,
                               playerStates, waitingPlayers, watchers, watchPc,
                               pc, result, lastMove>>
           ELSE LET b == finishMapCards(FlipCardBoard, otherMap.uniqueCards,
                                        cache)
                IN  /\ InstallFlipCard(b)
                    /\ otherMap' =
                           [otherMap EXCEPT
                               !.pc = "done",
                               !.transformCache = cache,
                               !.result = IF checkRepFlipCard(b)
                                          THEN "ok" ELSE ErrAssert]
    /\ view' = NoView
    /\ UNCHANGED <<initialVersion, mapPc, uniqueCards, cardMapping, mapResult,
                   maps, mapStart, target, last>>

\* getBoardState(playerId) is called and returns.
GetBoardState(p) ==
    /\ variant = "flipCard"
    /\ view' = [player |-> p, spots |-> getBoardState(FlipCardBoard, p),
                again |-> view.player = p]
    /\ UNCHANGED <<variant, cards, state, playerState, boardVersion,
                   changeListeners, mutex, faceUp, controlledBy, playerStates,
                   waitingPlayers, watchers, watchPc, initialVersion, mapPc,
                   uniqueCards, cardMapping, mapResult, maps, mapStart,
                   otherMap, pc, target, result, lastMove, last>>

\* waitForChange() is called: its resolver is pushed on watchers.
WaitForChangeCall(w) ==
    /\ variant = "flipCard"
    /\ watchPc[w] = "idle"
    /\ watchers' = Append(watchers, w)
    /\ watchPc' = [watchPc EXCEPT ![w] = "parked"]
    /\ view' = NoView
    /\ WatchStep
    /\ UNCHANGED <<changeListeners, initialVersion>>

\* The resolved waitForChange() call returns.
WaitForChangeReturn(w) ==
    /\ variant = "flipCard"
    /\ watchPc[w] = "woken"
    /\ watchPc' = [watchPc EXCEPT ![w] = "idle"]
    /\ view' = NoView
    /\ WatchStep
    /\ UNCHANGED <<changeListeners, watchers, initialVersion>>

(***************************************************************************)
(* Specifications                                                          *)
(***************************************************************************)
Init ==
    /\ variant \in {"flip", "flipCard"}
    /\ \E file \in Boards : cards = [i \in Positions |-> file[i + 1]]
    /\ state = [i \in Positions |-> "down"]
    /\ playerState = << >>
    /\ boardVersion = 0
    /\ changeListeners = << >>
    /\ mutex = Free
    /\ faceUp = [i \in Positions |-> FALSE]
    /\ controlledBy = [i \in Positions |-> Null]
    /\ playerStates = << >>
    /\ waitingPlayers = [i \in Positions |-> << >>]
    /\ watchers = << >>
    /\ watchPc = [w \in Watchers |-> "idle"]
    /\ initialVersion = [w \in Watchers |-> 0]
    /\ mapPc = "idle"
    /\ uniqueCards = << >>
    /\ cardMapping = << >>
    /\ mapResult = Pending
    /\ maps = 0
    /\ mapStart = cards
    /\ otherMap = NoOtherMap
    /\ view = NoView
    /\ pc = [p \in Callers \cup InvalidIds |-> "idle"]
    /\ target = [p \in Callers \cup InvalidIds |-> 0]
    /\ result = [p \in Callers \cup InvalidIds |-> Pending]
    /\ lastMove = [p \in Callers \cup InvalidIds |-> {}]
    /\ last = NoStep

NextFlip ==
    \/ \E p \in Players, position \in Positions : StartFlip(p, position)
    \/ \E p \in Players : TryFlip(p)
    \/ \E p \in Players : RetryFlip(p)
    \/ \E p \in Players : WaitForChange(p)
    \/ \E p \in Players : CheckRepFlip(p)

NextFlipCard ==
    \/ \E p \in Players, position \in Positions : FlipCard(p, position)
    \/ \E p \in Players : Resume(p)

Next == NextFlip \/ NextFlipCard

Spec == Init /\ [][Next]_vars

\* board.ts alone, and part_001 alone.
InitFlip == Init /\ variant = "flip"

SpecFlip == InitFlip /\ [][NextFlip]_vars

InitFlipCard == Init /\ variant = "flipCard"

SpecFlipCard == InitFlipCard /\ [][NextFlipCard]_vars

\* part_001 with the job queue's guarantee: the continuation of a resolved
\* await is run.
FairSpecFlipCard ==
    SpecFlipCard /\ \A p \in Players : WF_vars(Resume(p))

\* part_001 with three callers, on the board of two pairs.
InitThree ==
    /\ InitFlipCard
    /\ cards = [i \in Positions |-> <<"A", "A", "B", "B">>[i + 1]]

NextThree ==
    \/ \E p \in Callers, position \in 0 .. MaxThreeInput :
          FlipCard(p, position)
    \/ \E p \in Callers : Resume(p)

SpecThree == InitThree /\ [][NextThree]_vars

FairSpecThree == SpecThree /\ \A p \in Callers : WF_vars(Resume(p))

\* Both implementations on the board of two pairs, the players flipping the
\* cells 0 .. MaxOpsInput: with look, and with map.
InitOps ==
    /\ Init
    /\ cards = [i \in Positions |-> <<"A", "A", "B", "B">>[i + 1]]

NextOpsFlips ==
    \/ \E p \in Players, position \in 0 .. MaxOpsInput : StartFlip(p, position)
    \/ \E p \in Players : TryFlip(p)
    \/ \E p \in Players : RetryFlip(p)
    \/ \E p \in Players : WaitForChange(p)
    \/ \E p \in Players : CheckRepFlip(p)
    \/ \E p \in Players, position \in 0 .. MaxOpsInput : FlipCard(p, position)
    \/ \E p \in Players : Resume(p)

NextLook ==
    \/ NextOpsFlips
    \/ \E p \in Players : LookFlip(p)
    \/ \E p \in Players : GetBoardState(p)

SpecLook == InitOps /\ [][NextLook]_vars

NextMap ==
    \/ NextOpsFlips
    \/ StartMap
    \/ AcquireMap
    \/ \E newCard \in NewCards : TransformMap(newCard)
    \/ MapCards
    \/ \E newCard \in NewCards : TransformMapCards(newCard)

SpecMap == InitOps /\ [][NextMap]_vars

\* board.ts with two clients that call watch, and the flips of the players on
\* the cells 0 .. MaxWatchInput; with the job queue's guarantee that the
\* continuation of a resolved await is run.
InitWatch == InitOps /\ variant = "flip"

NextWatch ==
    \/ \E p \in Players, position \in 0 .. MaxWatchInput :
          StartFlip(p, position)
    \/ \E p \in Players : TryFlip(p)
    \/ \E p \in Players : RetryFlip(p)
    \/ \E p \in Players : WaitForChange(p)
    \/ \E p \in Players : CheckRepFlip(p)
    \/ \E w \in Watchers : Watch(w)
    \/ \E w \in Watchers : ResumeWatch(w)

SpecWatch == InitWatch /\ [][NextWatch]_vars

FairSpecWatch == SpecWatch /\ \A w \in Watchers : WF_vars(ResumeWatch(w))

\* part_001 with two mapCards calls that can overlap, the first with the
\* transformer Exchange, and the flips of the players on the cells
\* 0 .. MaxTwoMapsInput.
InitTwoMaps == InitOps /\ variant = "flipCard"

NextTwoMaps ==
    \/ \E p \in Players, position \in 0 .. MaxTwoMapsInput :
          FlipCard(p, position)
    \/ \E p \in Players : Resume(p)
    \/ MapCards
    \/ (/\ mapPc = "transform"
        /\ TransformMapCards(Exchange[uniqueCards[Len(cardMapping) + 1]]))
    \/ \E f \in Transformers : MapCardsOther(f)
    \/ TransformOther

SpecTwoMaps == InitTwoMaps /\ [][NextTwoMaps]_vars

\* part_001 with a client parked in waitForChange while the players flip the
\* cells 0 .. MaxOpsInput and a mapCards call runs.
NextWatchCard ==
    \/ \E p \in Players, position \in 0 .. MaxOpsInput :
          FlipCard(p, position)
    \/ \E p \in Players : Resume(p)
    \/ MapCards
    \/ \E newCard \in OpsNewCards : TransformMapCards(newCard)
    \/ WaitForChangeCall(Watcher)
    \/ WaitForChangeReturn(Watcher)

SpecWatchCard == InitTwoMaps /\ [][NextWatchCard]_vars

\* board.ts with three callers on the board of two pairs: the players flip
\* any cell, and carol flips the cells of BystanderCells.
BystanderCells == {1}

NextThreeFlip ==
    \/ \E p \in Players, position \in Positions : StartFlip(p, position)
    \/ \E position \in BystanderCells : StartFlip("carol", position)
    \/ \E p \in Callers : TryFlip(p)
    \/ \E p \in Callers : RetryFlip(p)
    \/ \E p \in Callers : WaitForChange(p)
    \/ \E p \in Callers : CheckRepFlip(p)

SpecThreeFlip == InitWatch /\ [][NextThreeFlip]_vars

\* Both implementations with calls of flip whose player ID is any string, on
\* the cells 0 .. MaxIdInput.
NextIds ==
    \/ \E p \in Players \cup InvalidIds, position \in 0 .. MaxIdInput :
          StartFlip(p, position)
    \/ \E p \in Players : TryFlip(p)
    \/ \E p \in Players : RetryFlip(p)
    \/ \E p \in Players : WaitForChange(p)
    \/ \E p \in Players : CheckRepFlip(p)
    \/ \E p \in Players \cup InvalidIds, position \in 0 .. MaxIdInput :
          FlipCard(p, position)
    \/ \E p \in Players \cup InvalidIds : Resume(p)

SpecIds == Init /\ [][NextIds]_vars

\* part_001 with players that call flipCard again while their earlier call is
\* parked, on the cells 0 .. MaxAgainInput of the board of two pairs.
MaxAgainInput == 2

NextAgain ==
    \/ \E p \in Players, position \in 0 .. MaxAgainInput :
          FlipCard(p, position)
    \/ \E p \in Players : Resume(p)
    \/ \E p \in Players, position \in 0 .. MaxAgainInput :
          FlipCardAgain(p, position)

SpecAgain == InitTwoMaps /\ [][NextAgain]_vars

\* Both implementations with look, map and watch.  A player calls flip when
\* the flips of the others have returned or are parked, and one more client
\* calls look, map and watch, one call at a time.
ClientIdle == mapPc = "idle" /\ \A w \in Watchers : watchPc[w] = "idle"

Quiet(p) == \A q \in Players \ {p} : pc[q] \in {"idle", "parked"}

NextOpsFlip ==
    \/ \E p \in Players, position \in 0 .. MaxOpsInput :
          Quiet(p) /\ StartFlip(p, position)
    \/ \E p \in Players : TryFlip(p)
    \/ \E p \in Players : RetryFlip(p)
    \/ \E p \in Players : WaitForChange(p)
    \/ \E p \in Players : CheckRepFlip(p)
    \/ (ClientIdle /\ StartMap)
    \/ AcquireMap
    \/ \E newCard \in OpsNewCards : TransformMap(newCard)
    \/ \E p \in Players : ClientIdle /\ LookFlip(p)
    \/ (ClientIdle /\ Watch(Watcher))
    \/ ResumeWatch(Watcher)

NextOpsFlipCard ==
    \/ \E p \in Players, position \in 0 .. MaxOpsInput :
          Quiet(p) /\ FlipCard(p, position)
    \/ \E p \in Players : Resume(p)
    \/ (ClientIdle /\ MapCards)
    \/ \E newCard \in OpsNewCards : TransformMapCards(newCard)
    \/ \E p \in Players : ClientIdle /\ GetBoardState(p)
    \/ (ClientIdle /\ WaitForChangeCall(Watcher))
    \/ WaitForChangeReturn(Watcher)

NextOps == NextOpsFlip \/ NextOpsFlipCard

SpecOps == InitOps /\ [][NextOps]_vars

(***************************************************************************)
(* Both implementations seen through one vocabulary                        *)
(***************************************************************************)
IsFlip == variant = "flip"

\* The cards of the player's open move.
Holding(p) == IF IsFlip THEN controlled(FlipBoard, p) ELSE currentCards(p)

\* The cells whose controller is p.
Controls(p) ==
    IF IsFlip THEN controlled(FlipBoard, p)
    ELSE { c \in Positions : controlledBy[c] = p }

\* The players that control cell c.
Controllers(c) ==
    IF IsFlip THEN { q \in DOMAIN playerState : c \in playerState[q] }
    ELSE {controlledBy[c]} \ {Null}

IsEmpty(c) == cards[c] = Null

IsUp(c) ==
    /\ cards[c] # Null
    /\ IF IsFlip THEN state[c] = "up" ELSE faceUp[c] = TRUE

Look(p) ==
    IF IsFlip THEN look(FlipBoard, p) ELSE getBoardState(FlipCardBoard, p)

\* The cells of the player's finished move that no cleanup has handled yet,
\* when that move matched, and when it did not.
MatchedCells(p) ==
    IF IsFlip
    THEN IF Cardinality(controlled(FlipBoard, p)) = 2
         THEN controlled(FlipBoard, p) ELSE {}
    ELSE IF previousMatched(p) THEN previousCards(p) ELSE {}

UnmatchedCells(p) ==
    IF IsFlip THEN lastMove[p]
    ELSE IF previousMatched(p) THEN {} ELSE previousCards(p)

\* The cells that look shows to p as 'my'.
MyCells(p) == { c \in Positions : Head(Look(p)[c]) = "my" }

\* The step evaluates the rules of a flip of p for the first time.
Evaluate(p) == TryFlip(p) \/ \E position \in Positions : FlipCard(p, position)

\* The step evaluates the rules of a flip of p, for the first time or again.
EvaluateAgain(p) == Evaluate(p) \/ RetryFlip(p) \/ Resume(p)

\* The step is a look of p.
LookStep(p) == LookFlip(p) \/ GetBoardState(p)

\* The face-up mark of cell c, whether or not a card is there.
MarkedUp(c) == IF IsFlip THEN state[c] = "up" ELSE faceUp[c] = TRUE

\* A call of p is suspended.
Suspended(p) == pc[p] \in {"toWait", "parked", "woken", "acquire"}

(***************************************************************************)
(* Claims                                                                  *)
(***************************************************************************)

\* C1: in board.ts no position is in the controlled set of two different
\* players, whatever flips were made.
C1_SingleController ==
    IsFlip => \A p, q \in DOMAIN playerState :
                  p # q => playerState[p] \cap playerState[q] = {}

\* C2: in both implementations a second-card flip on a cell controlled by a
\* different player does not suspend, fails with a 'controlled' error, and
\* leaves the player without any card, the first card staying face up.
C2_SecondOnControlledFails ==
    [][\A p \in Players :
          ( /\ Evaluate(p)
            /\ Cardinality(Holding(p)) = 1
            /\ Controllers(target'[p]) \ {p} # {} )
          => /\ pc'[p] = "idle"
             /\ IsControlledError(result'[p])
             /\ Holding(p)' = {}
             /\ Controls(p)' = {}
             /\ \A c \in Holding(p) : IsUp(c)'
      ]_vars

\* C3: in both implementations a second-card flip on an Empty cell fails
\* with a no-card error and releases the first card: face up, controlled by
\* nobody, shown as 'up' to the player.
C3_SecondOnEmptyReleases ==
    [][\A p \in Players :
          ( /\ Evaluate(p)
            /\ Cardinality(Holding(p)) = 1
            /\ IsEmpty(target'[p]) )
          => /\ pc'[p] = "idle"
             /\ IsNoCardError(result'[p])
             /\ \A c \in Holding(p) :
                   /\ Controllers(c)' = {}
                   /\ IsUp(c)'
                   /\ Look(p)'[c] = <<"up", cards'[c]>>
      ]_vars

\* The step is a second-card flip of p on position that matches (part_001).
MatchStep(p, position) ==
    /\ FlipCard(p, position)
    /\ Cardinality(currentCards(p)) = 1
    /\ previousMatched(p)'

\* A first-card flipCard of q on cell c, called now, would take control / park.
WouldTakeControl(q, c) ==
    LET b == flipCard(FlipCardBoard, q, c)
    IN  b.pc[q] = "idle" /\ b.controlledBy[c] = q

WouldPark(q, c) ==
    LET b == flipCard(FlipCardBoard, q, c)
    IN  b.pc[q] = "parked" /\ b.controlledBy[c] # q

FirstCardCallers(p) ==
    { q \in Players \ {p} : pc[q] = "idle" /\ currentCards(q) = {} }

C5_MatchedPairStaysMine ==
    IsFlip =>
        \A p \in Players :
            (pc[p] = "idle" /\ Cardinality(controlled(FlipBoard, p)) = 2)
            => MyCells(p) = controlled(FlipBoard, p)

\* C6: in both implementations, when a player whose previous move matched
\* starts the next flip, both matched cells are Empty as soon as the flip has
\* returned or parked, whatever cell it targets.
C6_CleanupBeforeRules ==
    [][\A p \in Players :
          (Evaluate(p) /\ MatchedCells(p) # {})
          => \A c \in MatchedCells(p) : IsEmpty(c)'
      ]_vars

C8_CleanupOnlyOwnCards ==
    [][\A p \in Players :
          (IsFlip /\ (TryFlip(p) \/ RetryFlip(p)) /\ controlled(FlipBoard, p) = {})
          => \A q \in Players \ {p} :
                \A c \in lastMove[q] \ (lastMove[p] \cup {target[p]}) :
                    (pc[q] = "idle" /\ IsUp(c) /\ Controllers(c) = {})
                    => IsUp(c)'
      ]_vars

\* A call of p is waiting for cell c: parked on its wait list, or resolved
\* and not yet resumed (part_001).
WaitingOn(p, c) == pc[p] \in {"parked", "woken"} /\ target[p] = c

\* C9: in part_001, a first-card flip of B that waits for a cell which its
\* controller has released (the cell is not Empty and has no controller)
\* eventually completes successfully with B controlling the cell, unless
\* another player takes control of the cell before B resumes.
C9_ParkedFlipCompletes ==
    \A p \in Players, c \in Positions :
        (~IsFlip /\ WaitingOn(p, c) /\ ~IsEmpty(c) /\ controlledBy[c] = Null)
        ~> \/ /\ pc[p] = "idle" /\ result[p] = "ok" /\ target[p] = c
              /\ controlledBy[c] = p /\ c \in currentCards(p)
           \/ controlledBy[c] \notin {Null, p}

\* C9 witness: a parked call was resumed on a cell that had been released and
\* not taken by anybody, and has completed with control of the cell.
C9_Witness ==
    /\ ~IsFlip
    /\ last.op = "resume"
    /\ last.owners = {}
    /\ ~last.wasEmpty
    /\ pc[last.player] = "idle"
    /\ result[last.player] = "ok"
    /\ controlledBy[last.pos] = last.player
    /\ \E q \in Players \ {last.player} :
          last.pos \in previousCards(q) /\ ~previousMatched(q)

\* C10: in board.ts there is no lost wake-up: a first-card flip is never left
\* parked in changeListeners on a cell that is not Empty and that no other
\* player controls while no other call is in flight, a state from which the
\* flip completes only if a further board change occurs.
C10_NoLostWakeup ==
    IsFlip =>
        \A p \in Players :
            ~ /\ pc[p] = "parked"
              /\ controlled(FlipBoard, p) = {}
              /\ ~IsEmpty(target[p])
              /\ ~isControlledByOther(FlipBoard, target[p], p)
              /\ \A q \in Players \ {p} : pc[q] = "idle"

\* C11: in part_001, every first-card flip that waits for a cell which the
\* removal of a matched pair has made Empty, whatever its place in the cell's
\* wait list, eventually returns with the 'No card at that position' error.
C11_AllWaitersFail ==
    \A p \in Callers, c \in Positions :
        (~IsFlip /\ WaitingOn(p, c) /\ IsEmpty(c))
        ~> (pc[p] = "idle" /\ target[p] = c /\ result[p] = ErrNoCard)

\* A flip of p is parked: waiting for a cell, or on its way to the wait.
Parked(p) == pc[p] \in {"toWait", "parked", "woken"}

\* The players of S are each parked on a cell that a player of S controls.
WaitCycle(S) ==
    \A p \in S : Parked(p) /\ \E q \in S : q \in Controllers(target[p])

\* C12: in both implementations a flip parks only as a first-card flip on a
\* cell that another player controls, a parked flip belongs to a player who
\* controls no cell, and no set of players is in a wait cycle.
C12_NoWaitCycle ==
    /\ [](\A p \in Players : Parked(p) => Controls(p) = {})
    /\ [](\A S \in SUBSET Players : S # {} => ~WaitCycle(S))
    /\ [][\A p \in Players :
            (EvaluateAgain(p) /\ pc'[p] \in {"toWait", "parked"})
            => /\ Holding(p) = {}
               /\ Controls(p)' = {}
               /\ \A c \in Positions :
                     c = target'[p] => /\ Controllers(c) \ {p} # {}
                                       /\ Controllers(c)' \ {p} # {}
        ]_vars

\* C12 witness: a first-card flip is parked on a cell whose controller has an
\* open move of one card; the parked player controls nothing.
C12_Witness ==
    \E p, q \in Players :
        /\ p # q
        /\ pc[p] = "parked"
        /\ last.player = p /\ last.held = {} /\ last.owners = {q}
        /\ q \in Controllers(target[p])
        /\ Cardinality(Holding(q)) = 1
        /\ Controls(p) = {}

\* C13: in both implementations every cell that some player controls is
\* not Empty and is face up.
C13_ControlledIsFaceUp ==
    \A c \in Positions : Controllers(c) # {} => (~IsEmpty(c) /\ IsUp(c))

\* C14: in both implementations each player holds at most 2 cards, in the
\* open move and under control, and when a player holds 2 the two cells have
\* equal values.
C14_AtMostTwoEqual ==
    \A p \in Players :
        /\ Cardinality(Holding(p)) <= 2
        /\ Cardinality(Controls(p)) <= 2
        /\ \A i, j \in Holding(p) \cup Controls(p) : cards[i] = cards[j]

\* The cells in the currentCards or the previousCards of player p.
Listed(p) == currentCards(p) \cup previousCards(p)

C16_EmptyIsTerminal ==
    [][\A c \in Positions :
          IsEmpty(c) => /\ IsEmpty(c)'
                        /\ ~MarkedUp(c)'
                        /\ Controllers(c)' \subseteq Controllers(c)
      ]_vars

\* C16 witness: a cell is Empty; since then a map has rewritten the cards, a
\* watch call was made and woken, and a flip was made on the cell.
C16_Witness ==
    \E c \in Positions :
        /\ IsEmpty(c)
        /\ mapStart[c] = Null /\ mapResult = "ok"
        /\ \E i \in Positions : cards[i] \notin {Null, mapStart[i]}
        /\ last.pos = c /\ last.wasEmpty
        /\ watchPc[Watcher] = "woken"

\* C17: in both implementations look(P) reports cell by cell, in row-major
\* order, 'none' exactly for the Empty cells, 'down' exactly for the cards
\* that are face down, 'my' with the value exactly for the face-up cards that
\* P controls, and 'up' with the value for every other face-up card.
C17_LookReportsCells ==
    [][\A p \in Players :
          LookStep(p)
          => /\ view'.player = p
             /\ DOMAIN view'.spots = Positions
             /\ \A c \in Positions :
                   LET spot == view'.spots[c]
                   IN  /\ spot = <<"none">> <=> IsEmpty(c)
                       /\ spot = <<"down">> <=> (~IsEmpty(c) /\ ~IsUp(c))
                       /\ spot = <<"my", cards[c]>>
                              <=> (IsUp(c) /\ p \in Controllers(c))
                       /\ spot = <<"up", cards[c]>>
                              <=> (IsUp(c) /\ p \notin Controllers(c))
      ]_vars

\* C17 witness: a look has just shown its player a 'my' card, an 'up' card
\* that another player controls, and a 'down'.
C17_Witness ==
    /\ view.player # Null
    /\ \E c \in Positions :
          /\ Head(view.spots[c]) = "up"
          /\ Controllers(c) \ {view.player} # {}
    /\ \E c \in Positions : Head(view.spots[c]) = "my"
    /\ \E c \in Positions : Head(view.spots[c]) = "down"

\* The variables that a look could change, the history of looks apart.
lookFrame ==
    <<variant, cards, state, playerState, boardVersion, changeListeners, mutex,
      faceUp, controlledBy, playerStates, waitingPlayers, watchers, watchPc,
      initialVersion, mapPc, uniqueCards, cardMapping, mapResult, maps,
      mapStart, pc, target, result, lastMove, last>>

\* C18: in both implementations a look is one step that changes nothing of
\* the board, the player table, the waiter collections, the change counter
\* or the calls in flight, and a look that directly follows a look of the
\* same player returns the same spots.
C18_LookIsPure ==
    [][\A p \in Players :
          LookStep(p)
          => /\ UNCHANGED lookFrame
             /\ view.player = p => view'.spots = view.spots
             /\ view'.spots = Look(p)'
      ]_vars

\* C18 witness: a player has looked twice in a row, with flips of the other
\* player in flight, and the player table does not know the player.
C18_Witness ==
    /\ view.again
    /\ \E q \in Players \ {view.player} : pc[q] \in {"parked", "acquire", "woken"}
    /\ IF IsFlip THEN view.player \notin DOMAIN playerState
       ELSE view.player \notin DOMAIN playerStates

\* Cells i and j held the same card when the latest map call was made (when
\* the board was made, before the first call).
PairedAtMapStart(i, j) == mapStart[i] # Null /\ mapStart[i] = mapStart[j]

\* The step is the return of a map call.
MapReturns == mapResult = Pending /\ mapResult' # Pending

\* C19: in both implementations, when a map call returns, any two cells that
\* held equal values when the call was made and are both non-Empty hold
\* equal values, whatever f returned and whatever flips ran meanwhile.
C19_MapKeepsPairs ==
    [][MapReturns
       => \A i, j \in Positions :
             (PairedAtMapStart(i, j) /\ ~IsEmpty(i)' /\ ~IsEmpty(j)')
             => cards'[i] = cards'[j]
      ]_vars

\* C19 witness: a map call has returned after rewriting two cells that held
\* equal values to one new value, a pair of cells was removed while the call
\* was running, and a flip is in flight.
C19_Witness ==
    /\ mapResult = "ok"
    /\ \E i, j \in Positions :
          /\ i # j /\ PairedAtMapStart(i, j)
          /\ ~IsEmpty(i) /\ cards[i] = cards[j] /\ cards[i] # mapStart[i]
    /\ \E i \in Positions : mapStart[i] # Null /\ IsEmpty(i)
    /\ \E p \in Players : pc[p] # "idle"

\* The cards that p's look shows for cells i and j are the same.
ShownEqual(p, i, j) ==
    (Len(Look(p)[i]) = 2 /\ Len(Look(p)[j]) = 2) => Look(p)[i][2] = Look(p)[j][2]

\* The step is a second-card flip of p that holds i and targets j, both cards
\* being there (and, in part_001, j being free).
SecondCardOn(p, i, j) ==
    /\ i # j
    /\ Holding(p) = {i}
    /\ ~IsEmpty(i) /\ ~IsEmpty(j)
    /\ IsFlip \/ Controllers(j) = {}
    /\ target'[p] = j
    /\ Evaluate(p)

\* After the step p has the pair i, j as a match.
MatchedOn(p, i, j) ==
    IF IsFlip THEN controlled(FlipBoard, p)' = {i, j}
    ELSE previousMatched(p)' /\ previousCards(p)' = {i, j}

\* C20: in both implementations a map is atomic for flips and looks: in no
\* state do two non-Empty cells that held equal values when the map call was
\* made hold different values, no look shows different cards for them, and a
\* second-card flip on them finds a match.
C20_MapIsAtomic ==
    /\ [](\A i, j \in Positions :
             (PairedAtMapStart(i, j) /\ ~IsEmpty(i) /\ ~IsEmpty(j))
             => /\ cards[i] = cards[j]
                /\ \A p \in Players : ShownEqual(p, i, j))
    /\ [][\A p \in Players, i, j \in Positions :
            (PairedAtMapStart(i, j) /\ SecondCardOn(p, i, j))
            => MatchedOn(p, i, j)
        ]_vars

\* C20 witness: while a map call is between two calls of f, the first having
\* returned a different card, a player who holds one card of a pair has a
\* flip in flight or has just flipped, and the pair is face up.
C20_Witness ==
    /\ mapPc = "transform"
    /\ cardMapping # << >>
    /\ cardMapping[1] # uniqueCards[1]
    /\ \E i, j \in Positions :
          /\ i # j /\ PairedAtMapStart(i, j)
          /\ IsUp(i) /\ IsUp(j)
          /\ cards[i] = uniqueCards[1]
          /\ \E p \in Players : i \in Controls(p) /\ last.player = p

\* The step is a step of a flip call of p.
FlipStep(p) ==
    \/ \E position \in Positions : StartFlip(p, position)
    \/ TryFlip(p) \/ RetryFlip(p) \/ WaitForChange(p) \/ CheckRepFlip(p)
    \/ \E position \in Positions : FlipCard(p, position)
    \/ Resume(p)

\* A map call has collected the card values and has not rewritten the cells.
MapRunning == mapPc = "transform"

\* C21: in both implementations, while a map call is between collecting the
\* card values and rewriting the cells, no flip step changes the face, the
\* controllers or the emptiness of any cell.
C21_MapExcludesFlips ==
    [][(MapRunning /\ \E p \in Players : FlipStep(p))
       => \A c \in Positions :
             /\ MarkedUp(c)' = MarkedUp(c)
             /\ Controllers(c)' = Controllers(c)
             /\ IsEmpty(c)' = IsEmpty(c)
      ]_vars

\* The step is the return of f with the value newCard to a map call.
TransformStep(newCard) == TransformMap(newCard) \/ TransformMapCards(newCard)

\* f has returned the empty string to the map call, now or before.
InvalidReturned(newCard) == newCard = "" \/ "" \in Range(cardMapping)

\* C23: in both implementations, a map call whose f has returned the empty
\* string for a card rewrites no cell and fails: none of its steps from then
\* on changes a card, a face or a controller, every card has the value it had
\* at the call, and the call ends with an error.
C23_InvalidValueAborts ==
    [][\A newCard \in NewCards :
          (TransformStep(newCard) /\ InvalidReturned(newCard))
          => /\ mapPc' = "idle" => mapResult' \notin {Pending, "ok"}
             /\ \A c \in Positions :
                   /\ cards'[c] = cards[c]
                   /\ cards'[c] \in {mapStart[c], Null}
                   /\ MarkedUp(c)' = MarkedUp(c)
                   /\ Controllers(c)' = Controllers(c)
      ]_vars

\* The step is the last step of a map call whose f returned, for every card,
\* the card itself.
IdentityMapEnds(newCard) ==
    /\ TransformStep(newCard)
    /\ mapPc' = "idle"
    /\ Append(cardMapping, newCard) = uniqueCards

\* The step is a step of a map call that is not its last.
MapGoesOn ==
    /\ StartMap \/ AcquireMap \/ MapCards
          \/ \E newCard \in NewCards : TransformStep(newCard)
    /\ mapPc' # "idle"

\* C24: in both implementations a map with the identity transformer leaves
\* the look of every player unchanged and advances boardVersion (empties the
\* watchers) at most once: its last step does that, the steps before it
\* change neither.
C24_IdentityMapKeepsLooks ==
    /\ [][\A newCard \in NewCards :
            IdentityMapEnds(newCard)
            => /\ \A p \in Players : Look(p)' = Look(p)
               /\ boardVersion' \in {boardVersion, boardVersion + 1}
               /\ watchers' \in {watchers, << >>}
        ]_vars
    /\ [][MapGoesOn
           => /\ \A p \in Players : Look(p)' = Look(p)
              /\ boardVersion' = boardVersion
              /\ watchers' = watchers
        ]_vars

\* C24 witness: a map call has returned, every card has the value it had at
\* the call and none was removed, and a player controls a card (in board.ts
\* after one more change than the map's).
C24_Witness ==
    /\ mapResult = "ok"
    /\ cards = mapStart
    /\ \A c \in Positions : ~IsEmpty(c)
    /\ \E p \in Players : Controls(p) # {}
    /\ IsFlip => boardVersion >= 2

\* C26: in board.ts boardVersion never decreases, every step that changes
\* the face, the value or the emptiness of a cell increases it, and the flip
\* of a player without cards on an Empty cell leaves it as it is.
C26_VersionCountsChanges ==
    [][IsFlip
       => /\ boardVersion' >= boardVersion
          /\ (\E c \in Positions : cards'[c] # cards[c] \/ IsUp(c)' # IsUp(c))
                => boardVersion' > boardVersion
          /\ \A p \in Players :
                (TryFlip(p) /\ Holding(p) = {} /\ IsEmpty(target[p]))
                => boardVersion' = boardVersion
      ]_vars

\* C26 witness: in board.ts, after a map has rewritten the cards and a pair
\* was removed, a player without cards has just flipped an Empty cell.
C26_Witness ==
    /\ IsFlip
    /\ mapResult = "ok"
    /\ \E c \in Positions : ~IsEmpty(c) /\ cards[c] # mapStart[c]
    /\ last.op = "tryFlip" /\ last.wasEmpty /\ last.held = {}
    /\ last.player \in Players
    /\ result[last.player] = ErrEmptyFlip
    /\ boardVersion >= 4

\* p has no card of an open move and no finished move to clean up.
NothingPending(p) ==
    Holding(p) = {} /\ MatchedCells(p) = {} /\ UnmatchedCells(p) = {}

\* The step leaves every cell as it is: card, face and controllers.
CellsUnchanged ==
    \A c \in Positions :
        /\ cards'[c] = cards[c]
        /\ MarkedUp(c)' = MarkedUp(c)
        /\ Controllers(c)' = Controllers(c)

\* The step wakes no waiting call and notifies no change.
NobodyWoken(p) ==
    /\ \A q \in Players \ {p} : pc'[q] = pc[q]
    /\ changeListeners' = changeListeners
    /\ boardVersion' = boardVersion
    /\ waitingPlayers' = waitingPlayers
    /\ watchers' = watchers

\* C27: in both implementations the flip of a player who has no card and no
\* move to clean up, on an Empty cell, fails with a no-card error and changes
\* nothing: the cells are as before, the player has no card, nobody is woken.
C27_FirstOnEmptyFails ==
    [][\A p \in Players :
          (Evaluate(p) /\ NothingPending(p) /\ IsEmpty(target'[p]))
          => /\ pc'[p] = "idle"
             /\ IsNoCardError(result'[p])
             /\ CellsUnchanged
             /\ Holding(p)' = {} /\ Controls(p)' = {}
             /\ NobodyWoken(p)
      ]_vars

\* C27 witness: a player without cards and without a move to clean up has
\* just flipped an Empty cell and got the error, while the other player
\* controls a card.
C27_Witness ==
    /\ last.op \in {"tryFlip", "flipCard"}
    /\ last.wasEmpty /\ last.held = {} /\ last.prev = {}
    /\ last.player \in Players
    /\ pc[last.player] = "idle"
    /\ IsNoCardError(result[last.player])
    /\ \E q \in Players \ {last.player} : Controls(q) # {}

\* The step is the first evaluation of a flip of p, who holds no card, on a
\* cell with a card that no player controls.
FirstCardOnFree(p) ==
    /\ Evaluate(p)
    /\ Holding(p) = {}
    /\ ~IsEmpty(target'[p])
    /\ Controllers(target'[p]) = {}

\* The latest evaluation was a first-card flip of p on a cell with a card
\* that no player controlled, and the call has returned.
ReturnedFirstCardOnFree(p) ==
    /\ last.player = p
    /\ last.op \in {"tryFlip", "flipCard"}
    /\ last.held = {} /\ last.owners = {} /\ ~last.wasEmpty
    /\ pc[p] = "idle"

\* C28: in both implementations a first-card flip on a cell with a card that
\* no player controls, face down or face up, does not wait and succeeds:
\* after it the cell is face up and controlled by the player alone, who holds
\* that one card, and the call returns without an error.
C28_FirstOnFreeTakesControl ==
    /\ [][\A p \in Players :
            FirstCardOnFree(p)
            => \A c \in Positions :
                  c = target'[p]
                  => /\ ~Suspended(p)'
                     /\ IsUp(c)'
                     /\ Controllers(c)' = {p}
                     /\ Holding(p)' = {c}
                     /\ Controls(p)' = {c}
        ]_vars
    /\ [](\A p \in Players : ReturnedFirstCardOnFree(p) => result[p] = "ok")

\* The step is the first evaluation of a flip of p, who holds the card of
\* cell c, on that same cell.
SecondCardOnOwn(p, c) ==
    /\ Holding(p) = {c}
    /\ target'[p] = c
    /\ Evaluate(p)

\* The step turns the card of cell c, which stays on the board, face down.
TurnedDown(c) == IsUp(c) /\ ~IsEmpty(c)' /\ ~IsUp(c)'

\* The step is a flip that starts a new move: it runs the cleanup.
CleanupStep == \E q \in Players : EvaluateAgain(q) /\ Cardinality(Holding(q)) # 1

\* C29: in both implementations, when a player who holds one card flips the
\* same cell as second card, the call fails with a 'controlled' error without
\* waiting, the player holds no card, the card is face up and controlled by
\* nobody, and only the cleanup of a later flip turns a card face down.
C29_SecondOnOwnFails ==
    [][/\ \A p \in Players, c \in Positions :
            SecondCardOnOwn(p, c)
            => /\ pc'[p] = "idle"
               /\ IsControlledError(result'[p])
               /\ Holding(p)' = {}
               /\ Controls(p)' = {}
               /\ IsUp(c)'
               /\ Controllers(c)' = {}
       /\ \A c \in Positions : TurnedDown(c) => CleanupStep
      ]_vars

\* The step is the first evaluation of a flip of p, who holds the card of
\* cell f, on another cell c with a different card that no player controls.
SecondCardOnDifferent(p, f, c) ==
    /\ c # f
    /\ Holding(p) = {f}
    /\ ~IsEmpty(f) /\ ~IsEmpty(c)
    /\ cards[f] # cards[c]
    /\ Controllers(c) = {}
    /\ target'[p] = c
    /\ Evaluate(p)

\* The latest evaluation was a second-card flip of p on a cell with a card
\* that no player controlled, p has no match from it, and the call has
\* returned.
ReturnedSecondCardNoMatch(p) ==
    /\ last.player = p
    /\ last.op \in {"tryFlip", "flipCard"}
    /\ Cardinality(last.held) = 1
    /\ last.pos \notin last.held
    /\ last.owners = {} /\ ~last.wasEmpty
    /\ MatchedCells(p) = {}
    /\ pc[p] = "idle"

\* C30: in both implementations, after a second-card flip on a cell that no
\* player controls and whose card differs from the first card, both cards
\* are face up, no player controls either, the player holds no card, and the
\* call returns without an error.
C30_NoMatchReleasesBoth ==
    /\ [][\A p \in Players, f, c \in Positions :
            SecondCardOnDifferent(p, f, c)
            => /\ ~Suspended(p)'
               /\ IsUp(f)' /\ IsUp(c)'
               /\ Controllers(f)' = {} /\ Controllers(c)' = {}
               /\ Holding(p)' = {} /\ Controls(p)' = {}
        ]_vars
    /\ [](\A p \in Players : ReturnedSecondCardNoMatch(p) => result[p] = "ok")

\* The step is the rewrite of the first mapCards call, and of the second.
FirstMapRewrites == ~IsFlip /\ mapPc = "transform" /\ mapPc' = "idle"

OtherMapRewrites == otherMap.pc = "transform" /\ otherMap'.pc = "done"

\* C22: in part_001, the rewrite step of every mapCards(f) call gives every
\* non-Empty cell the value f(v) of the value v it holds just before the
\* step, also when another mapCards call completed after this call had
\* collected the values.
C22_NoMapIsLost ==
    [][/\ FirstMapRewrites
          => \A c \in Positions :
                ~IsEmpty(c) => cards'[c] = Exchange[cards[c]]
       /\ OtherMapRewrites
          => \A c \in Positions :
                ~IsEmpty(c) => cards'[c] = otherMap.f[cards[c]]
      ]_vars

\* The step is the return of the watch call of w.
WatchReturns(w) == watchPc[w] = "woken" /\ watchPc'[w] = "idle"

C33_WokenWaiterIsNext ==
    [][\A w \in Callers, c \in Positions :
          (~IsFlip /\ pc[w] = "woken" /\ target[w] = c)
          => \A q \in Callers \ {w} :
                (c \notin previousCards(q) /\ controlledBy'[c] = q)
                => controlledBy[c] = q
      ]_vars

\* C34: in part_001, a second-card flip that releases the player's first
\* card (second card Empty, controlled or the same card, or not matching)
\* resolves the first entry of that cell's wait list, the call parked the
\* longest, and only that one; the other entries stay parked in their order,
\* and with an empty wait list no call is resolved.
C34_ReleaseWakesOldestOnly ==
    [][\A p \in Callers, f \in Positions :
          (/\ ~IsFlip
           /\ currentCards(p) = {f}
           /\ controlledBy[f] = p
           /\ controlledBy'[f] = Null)
          => LET waitList == waitingPlayers[f]
             IN  /\ waitingPlayers'[f] =
                        IF waitList = << >> THEN << >> ELSE Tail(waitList)
                 /\ \A q \in Callers :
                        (pc[q] # "woken" /\ pc'[q] = "woken")
                        <=> (waitList # << >> /\ q = Head(waitList).playerId)
                 /\ \A i \in 2 .. Len(waitList) :
                        /\ pc[waitList[i].playerId] = "parked"
                        /\ pc'[waitList[i].playerId] = "parked"
      ]_vars

\* A release has resolved the older of two calls parked on the cell and left
\* the newer one parked: the releaser lists the free cell in previousCards.
C34_Witness ==
    /\ ~IsFlip
    /\ \E f \in Positions :
          /\ controlledBy[f] = Null
          /\ f \in previousCards(last.player)
          /\ last.held = {f}
          /\ \E w, q \in Callers \ {last.player} :
                /\ w # q
                /\ pc[w] = "woken" /\ target[w] = f
                /\ pc[q] = "parked" /\ target[q] = f
                /\ waitingPlayers[f] = <<[playerId |-> q]>>

\* C38: in part_001, with one flip in flight per player, every cell that
\* holds a card, is face up and is controlled by nobody is listed in the
\* previousCards of at least one player.
C38_NoOrphanedFaceUp ==
    ~IsFlip =>
        \A c \in Positions :
            (cards[c] # Null /\ faceUp[c] /\ controlledBy[c] = Null)
            => \E p \in Callers : c \in previousCards(p)

\* A player's second card has just released its first card, which stays face
\* up, free and listed by that player only, while the other player holds a
\* first card and has cleared its own list.
C38_Witness ==
    /\ ~IsFlip
    /\ \E c \in Positions, p, q \in Callers :
          /\ p # q
          /\ cards[c] # Null /\ faceUp[c] /\ controlledBy[c] = Null
          /\ last.player = p /\ last.held = {c}
          /\ c \in previousCards(p)
          /\ previousCards(q) = {} /\ currentCards(q) # {}

\* C37: in both implementations, every step that empties cells empties exactly
\* two cells, which held equal values, and the number of Empty cells is
\* always even.
C37_CardsLeaveInPairs ==
    /\ [](Cardinality({ c \in Positions : IsEmpty(c) }) % 2 = 0)
    /\ [][LET gone == { c \in Positions : ~IsEmpty(c) /\ IsEmpty(c)' }
          IN  gone # {}
              => /\ Cardinality(gone) = 2
                 /\ \A i, j \in gone : cards[i] = cards[j]
        ]_vars

\* C36: in both implementations, a cell that player p controls holds a card
\* and is face up, and a step that is not a step of one of p's own flips (a
\* step of another player's flip, or of a map) leaves the cell's controllers,
\* its face and its card in place.
C36_ControlIsStable ==
    /\ [](\A p \in Players : \A c \in Controls(p) : IsUp(c))
    /\ [][\A p \in Players :
             (Controls(p) # {} /\ ~FlipStep(p))
             => \A c \in Controls(p) :
                   /\ Controllers(c)' = Controllers(c)
                   /\ IsUp(c)'
         ]_vars

\* C35: in part_001, a step resolves a call parked in waitForChange exactly
\* when it turns a card face up or face down (also when the cleanup of a flip
\* turns a card face down and the same flip turns it up again), removes a
\* card or changes a card's value; a step that changes only who controls a
\* card leaves the call parked.
C35_WatchersSeeFaceAndValue ==
    [][\A w \in Watchers :
          (~IsFlip /\ watchPc[w] = "parked")
          => (watchPc'[w] = "woken"
              <=> \/ faceUp' # faceUp
                  \/ cards' # cards
                  \/ \E p \in Players :
                        /\ pc[p] = "idle"
                        /\ currentCards(p) = {}
                        /\ ~previousMatched(p)
                        /\ \E c \in previousCards(p) :
                              /\ cards[c] # Null
                              /\ faceUp[c]
                              /\ controlledBy[c] = Null
                        /\ \E position \in Positions : FlipCard(p, position))
      ]_vars

\* A waitForChange call is parked while the latest flip, a first card on a
\* card that another player's move had left face up, has only taken control.
C35_Witness ==
    /\ ~IsFlip
    /\ watchPc[Watcher] = "parked"
    /\ \E q \in Players, c \in Positions :
          /\ last.player = q /\ last.pos = c /\ last.held = {}
          /\ last.prev = {}
          /\ controlledBy[c] = q
          /\ \E p \in Players \ {q} : c \in previousCards(p)

\* C31: in both implementations, when two players who hold no card have
\* first-card flips in flight on two different cells that hold a card and
\* that nobody controls, the flip evaluated first does not wait, gives its
\* player control of exactly its cell and leaves the other cell free for the
\* other player, and it returns without an error.
C31_ConcurrentFirstCards ==
    /\ [][\A p \in Callers :
             (/\ pc[p] = (IF IsFlip THEN "acquire" ELSE "idle")
              /\ Holding(p) = {})
             => \A c \in Positions :
                   (/\ c = target'[p]
                    /\ IsFlip => c = target[p]
                    /\ ~IsEmpty(c) /\ Controllers(c) = {})
                   => \A q \in Callers \ {p}, d \in Positions \ {c} :
                         (/\ pc[q] = pc[p]
                          /\ IsFlip => d = target[q]
                          /\ Holding(q) = {}
                          /\ ~IsEmpty(d) /\ Controllers(d) = {}
                          /\ Evaluate(p))
                         => /\ ~Suspended(p)'
                            /\ Controls(p)' = {c}
                            /\ Holding(q)' = {}
                            /\ ~IsEmpty(d)' /\ Controllers(d)' = {}
                            /\ ~IsFlip => result'[p] = "ok"
         ]_vars
    /\ [](\A p \in Callers, q \in Callers :
             (/\ IsFlip
              /\ p # q
              /\ ReturnedFirstCardOnFree(p)
              /\ pc[q] = "acquire"
              /\ Holding(q) = {}
              /\ target[q] # last.pos
              /\ ~IsEmpty(target[q]) /\ Controllers(target[q]) = {})
             => result[p] = "ok")

\* C32: in both implementations, a flip whose player ID is not a non-empty
\* string of letters, digits and underscores is rejected with an error and
\* changes nothing: no entry for the player is created, and no cell changes
\* its card, its face or its controller.
C32_InvalidIdRejected ==
    [][\A p \in InvalidIds :
          (/\ ~validPlayerId(p)
           /\ \E position \in Positions :
                 StartFlip(p, position) \/ FlipCard(p, position))
          => /\ pc'[p] = "idle"
             /\ result'[p] \notin {"ok", Pending}
             /\ p \notin DOMAIN playerState' /\ p \notin DOMAIN playerStates'
             /\ UNCHANGED <<cards, state, playerState, boardVersion,
                            changeListeners, faceUp, controlledBy,
                            playerStates, waitingPlayers, watchers>>
      ]_vars

\* C39: in part_001, also when a player calls flipCard again while an earlier
\* first-card flip of the player is parked, and that flip is resumed later,
\* the player's currentCards has at most two entries, holds no two cells of
\* different values, and is exactly the set of the cells that the player
\* controls in an open move (the controlled cells outside a matched pair of
\* the previous move).
C39_ParkedFlipKeepsState ==
    ~IsFlip =>
        \A p \in DOMAIN playerStates :
            /\ Len(playerStates[p].currentCards) <= 2
            /\ \A i, j \in currentCards(p) : cards[i] = cards[j]
            /\ currentCards(p) =
                  { c \in Positions : controlledBy[c] = p }
                  \ (IF previousMatched(p) THEN previousCards(p) ELSE {})

====
